---- MODULE Spec2Model ----
(***************************************************************************)
(* Model of backend/main.py: the /api/transcribe pipeline                  *)
(* (transcribe_youtube with _download_audio, _split_audio, _build_srt),    *)
(* the /api/live-stt session (live_stt with _convert_to_wav) and the       *)
(* /api/minutes upload route (transcribe_minutes with _normalize_audio and *)
(* _call_elevenlabs_scribe).                                               *)
(* Further specifications take _split_audio up to its return (SpecSplit),  *)
(* _build_srt as a function of its arguments (SpecSrt), the four backend   *)
(* call paths with respect to their API keys (SpecKeys), and two pipeline  *)
(* executions and a live session running at the same time                  *)
(* (SpecConcurrent).                                                       *)
(*                                                                         *)
(* Times are kept in ticks of a tenth of a millisecond (the code's float   *)
(* seconds times TicksPerSec, rounded down): the double nearest to 603.52  *)
(* lies below it and is kept as 6035199 ticks. Chunk offsets are kept in   *)
(* seconds, as the code keeps them, and the word times of the minutes      *)
(* route in whole milliseconds.                                            *)
(* Scratch files are named by kind and ordinal: the code names them with   *)
(* uuid4, so two files created by different calls never share a name.      *)
(***************************************************************************)
EXTENDS Integers, Sequences, FiniteSets, TLC

(* ------------------------------ bounds --------------------------------- *)

\* Most chunks the cut loop may append: a source lasts at most
\* MaxChunks * CHUNK_DURATION_SEC seconds.
MaxChunks == 2

\* Most segments one pipeline run assembles.
MaxSegments == 2

\* Most frames one live session receives.
MaxFrames == 3

\* Most segments handed to one call of _build_srt on its own.
MaxSrtSegments == 3

(* ------------------------- program constants --------------------------- *)

GROQ_MAX_FILE_SIZE == 25165824

CHUNK_DURATION_SEC == 600

MIN_CHUNK_BYTES == 1000

MsPerSec == 1000

\* The resolution of the times of the model.
TicksPerSec == 10 * MsPerSec

TicksPerMs == TicksPerSec \div MsPerSec

MIN_FRAME_BYTES == 100

ELEVENLABS_MAX_FILE_SIZE == 104857600

(* ------------------------------ inputs --------------------------------- *)

\* A URL is a sequence of tokens; the tokens are the literals the pattern
\* distinguishes plus other text.
Urls ==
  { <<"https", "://", "www.", "youtube.com/watch?", "v=abc">>,
    <<"http", "://", "youtu.be/", "abc">>,
    <<"https", "://", "youtube.com/shorts/", "abc">>,
    <<"https", "://", "example.com/", "video">>,
    <<"ftp", "://", "youtube.com/watch?", "v=abc">>,
    <<"x", "https", "://", "youtu.be/", "abc">>,
    <<"https", "://", "youtube.com/embed/", "abc">>,
    <<"https", "://", "www.", "example.com/", "youtu.be/">>,
    <<"https", "://">>,
    <<>> }

\* st_size of the downloaded mp3.
AudioSizes == {4000000, GROQ_MAX_FILE_SIZE, GROQ_MAX_FILE_SIZE + 1}

\* How long a source over the size limit may last, in seconds: up to
\* MaxChunks windows, the last one full or not.
Durations ==
  {CHUNK_DURATION_SEC * k - 300 : k \in 1..MaxChunks}
    \cup {CHUNK_DURATION_SEC * MaxChunks}

\* The mp3 yt-dlp leaves: its st_size and its duration. A source at or
\* under the limit is never cut, so one duration stands for all of them.
AudioSources ==
  {[size |-> sz, duration |-> 300] : sz \in {s \in AudioSizes : s <= GROQ_MAX_FILE_SIZE}}
    \cup {[size |-> sz, duration |-> d] :
            sz \in {s \in AudioSizes : s > GROQ_MAX_FILE_SIZE}, d \in Durations}

\* st_size of a file a cut attempt left behind.
ChunkSizes == {0, MIN_CHUNK_BYTES - 1, MIN_CHUNK_BYTES, 9000000}

\* The <<start, end>> a provider may report for a segment, in ticks; the
\* last two reach beyond the 600 s window of a chunk.
SegSpans ==
  {<<0, 400 * TicksPerSec>>, <<400 * TicksPerSec, 650 * TicksPerSec>>,
   <<650 * TicksPerSec, 650 * TicksPerSec>>}

\* Segment texts: sequences of characters.
SegTexts == {<<"a">>, <<" ">>}

Shapes == {"dict", "obj"}

\* The <<start, end>> of a segment handed to _build_srt on its own, in
\* ticks: 3.52 s, 59.999 s, 603.52 s (the double nearest to it lies below
\* it) and 3661.001 s.
SrtSpans ==
  {<<0, 35200>>, <<35200, 6035199>>, <<599990, 599990>>, <<6035199, 36610010>>}

\* The texts of such segments: plain, simplified, blank, padded.
SrtTexts == {<<"a">>, <<"s">>, <<" ">>, <<" ", "a", " ">>}

\* The segment lists of at most n segments of one shape.
SrtSegmentLists(n) ==
  UNION {[1..m -> {[shape |-> shape, start |-> span[1], end |-> span[2], text |-> text] :
                     span \in SrtSpans, text \in SrtTexts}] :
           m \in 0..n, shape \in Shapes}

\* The API keys read with os.getenv (lines 23, 29, 34).
KeyNames == {"GROQ_API_KEY", "OLLAMA_API_KEY", "ELEVENLABS_API_KEY"}

\* What os.getenv finds for a key: None, the empty string, or a key.
KeyValues == {"unset", "empty", "set"}

\* The handlers that run at the same time: two requests to /api/transcribe
\* and one /api/live-stt session.
Executions == {"transcribe_1", "transcribe_2", "live_1"}

\* req.language: the default tag and another one.
Languages == {"yue", "zh"}

\* len(audio_bytes) of a live frame.
FrameSizes == {0, 40, MIN_FRAME_BYTES - 1, MIN_FRAME_BYTES, 5000}

\* The first message of a live session, a JSON object: a function from its
\* keys to their values.
InitMessages == {[language |-> "yue"], [language |-> "zh"], [rate |-> "16000"]}

\* transcription.text of a live frame: None, empty, blank or words.
LiveTexts == {<<>>, <<" ">>, <<"a">>, <<"s", " ">>}

\* file.filename of an upload: its stem and its suffix, or nothing.
UploadNames ==
  {<<>>, <<"talk">>, <<"talk", ".mp3">>, <<"talk", ".WAV">>, <<"talk", ".exe">>}

\* len(content) of an upload.
UploadSizes == {2000000, ELEVENLABS_MAX_FILE_SIZE, ELEVENLABS_MAX_FILE_SIZE + 1}

\* The JSON ElevenLabs answers with: the text and the timed words.
ScribeResults ==
  { [text |-> <<"s">>, words |-> <<>>],
    [text |-> <<"s", ".", "a">>,
     words |-> << [start |-> 0, text |-> <<"s", ".">>],
                  [start |-> 61500, text |-> <<"a">>] >>] }

(* ------------------------------- state --------------------------------- *)

VARIABLES
  files,          \* the files that exist under SRT_DIR
  pc,             \* position of the transcribe_youtube handler
  req_url,        \* req.youtube_url
  req_language,   \* req.language
  audio_path,     \* transcribe_youtube's audio_path
  audio_source,   \* st_size and duration of the file at audio_path
  proc,           \* _split_audio's proc and the chunk file it left
  chunks,         \* _split_audio's chunks, then transcribe_youtube's chunks
  offset,         \* _split_audio's offset (seconds)
  idx,            \* _split_audio's idx
  ci,             \* position of the for loop over chunks (1-based)
  all_segments,   \* transcribe_youtube's all_segments
  raw_segments,   \* history: what the provider returned, with its chunk
  started,        \* history: the external calls the handler has started
  response,       \* what the handler returned
  lpc,            \* position of the live_stt handler
  client_open,    \* the client has not closed the websocket
  lang,           \* live_stt's lang
  audio_bytes,    \* len(audio_bytes) of the frame being processed
  wav_path,       \* live_stt's wav_path
  outbox,         \* the messages live_stt has sent to the client
  init_log,       \* history: the initialization messages received
  frame_log,      \* history: the frames received and how each resolved
  live_calls,     \* history: the transcoder and provider calls of the session
  mpc,            \* position of the transcribe_minutes handler
  upload,         \* the upload: file.filename, len(content), language, include_timestamps
  input_path,     \* transcribe_minutes's input_path
  norm_path,      \* transcribe_minutes's norm_path
  m_response,     \* what transcribe_minutes returned
  srt_pc,         \* position of a call of _build_srt on its own
  srt_segments,   \* _build_srt's segments
  srt_language,   \* _build_srt's language
  srt_result,    \* what _build_srt returned
  env,            \* the environment of the process: each API key unset, empty or set
  k_pc,           \* the module is not imported yet, failed to import, or serves
  k_path,         \* the backend call path taken last
  k_http,         \* that call attempted an outbound HTTP request
  k_error,        \* what that call raised
  uuids,          \* how many times each execution has called uuid4
  runs,           \* the locals of each concurrent execution
  creator,        \* history: which execution created each file
  touched         \* history: the execution that took the last step and the paths it used

\* The state of the /api/transcribe handler.
pvars == <<pc, req_url, req_language, audio_path, audio_source, proc, chunks,
           offset, idx, ci, all_segments, raw_segments, started, response>>

\* The state of the /api/live-stt handler.
lvars == <<lpc, client_open, lang, audio_bytes, wav_path, outbox, init_log,
           frame_log, live_calls>>

\* The state of the /api/minutes handler.
mvars == <<mpc, upload, input_path, norm_path, m_response>>

\* The state of a call of _build_srt on its own.
svars == <<srt_pc, srt_segments, srt_language, srt_result>>

\* The state of the backend calls with respect to their credentials.
kvars == <<env, k_pc, k_path, k_http, k_error>>

\* The state of the concurrent executions.
cvars == <<uuids, runs, creator, touched>>

\* The state outside the three handlers.
xvars == <<svars, kvars, cvars>>

vars == <<files, pvars, lvars, mvars, xvars>>

NoFile == [kind |-> "none", n |-> 0]

AudioFile == [kind |-> "audio", n |-> 0]

ChunkFile(i) == [kind |-> "chunk", n |-> i]

SrtFile == [kind |-> "srt", n |-> 0]

NoSource == [size |-> 0, duration |-> 0]

\* No cut attempted yet, or _split_audio has returned.
NoProc == [returncode |-> 0, exists |-> FALSE, st_size |-> 0]

\* The locals of an execution that has not started.
NoRun ==
  [pc |-> "idle", audio_path |-> NoFile, chunks |-> <<>>, idx |-> 0, ci |-> 0,
   all_segments |-> <<>>, wav_path |-> NoFile, frames |-> 0]

NoResponse == [status |-> 0, filename |-> NoFile, srt |-> <<>>]

NoUpload == [filename |-> <<>>, size |-> 0, language |-> "yue", include_timestamps |-> FALSE]

(* ------------------------- YOUTUBE_URL_PATTERN ------------------------- *)

\* The pattern searched anywhere in the string (re.search for re.match).
UrlMatchesAnywhere(u) ==
  \E k \in 0..Len(u) :
    /\ Len(u) >= k + 2
    /\ u[k + 1] \in {"http", "https"}
    /\ u[k + 2] = "://"
    /\ LET i == IF Len(u) >= k + 3 /\ u[k + 3] = "www." THEN k + 4 ELSE k + 3
       IN  /\ Len(u) >= i
           /\ u[i] \in {"youtube.com/watch?", "youtu.be/", "youtube.com/shorts/"}

\* re.match anchors the pattern at the start of the string only:
\* ^https?://(www\.)?(youtube\.com/watch\?|youtu\.be/|youtube\.com/shorts/)
UrlMatches(u) ==
  /\ Len(u) >= 2
  /\ u[1] \in {"http", "https"}
  /\ u[2] = "://"
  /\ LET i == IF Len(u) >= 3 /\ u[3] = "www." THEN 4 ELSE 3
     IN  /\ Len(u) >= i
         /\ u[i] \in {"youtube.com/watch?", "youtu.be/", "youtube.com/shorts/"}

(* ------------------------------ Init ----------------------------------- *)

Init ==
  /\ files = {}
  /\ pc = "idle"
  /\ req_url = <<>>
  /\ req_language = "yue"
  /\ audio_path = NoFile
  /\ audio_source = NoSource
  /\ proc = NoProc
  /\ chunks = <<>>
  /\ offset = 0
  /\ idx = 0
  /\ ci = 0
  /\ all_segments = <<>>
  /\ raw_segments = <<>>
  /\ started = {}
  /\ response = NoResponse
  /\ lpc = "receive_init"
  /\ client_open = TRUE
  /\ lang = "none"
  /\ audio_bytes = 0
  /\ wav_path = NoFile
  /\ outbox = <<>>
  /\ init_log = <<>>
  /\ frame_log = <<>>
  /\ live_calls = <<>>
  /\ mpc = "idle"
  /\ upload = NoUpload
  /\ input_path = NoFile
  /\ norm_path = NoFile
  /\ m_response = NoResponse
  /\ srt_pc = "idle"
  /\ srt_segments = <<>>
  /\ srt_language = "yue"
  /\ srt_result = <<>>
  /\ env = [k \in KeyNames |-> "unset"]
  /\ k_pc = "start"
  /\ k_path = "none"
  /\ k_http = FALSE
  /\ k_error = "none"
  /\ uuids = [e \in Executions |-> 0]
  /\ runs = [e \in Executions |-> NoRun]
  /\ creator = {}
  /\ touched = [by |-> "none", paths |-> {}]

(* --------------------------- transcribe_youtube ------------------------ *)

\* The except clause of transcribe_youtube: a 500 result, nothing else.
Fail500 ==
  /\ response' = [status |-> 500, filename |-> NoFile, srt |-> <<>>]
  /\ pc' = "done"

\* Lines 280-285: the URL check, before the try block.
ReceiveRequest ==
  /\ pc = "idle"
  /\ UNCHANGED <<lvars, mvars, xvars>>
  /\ \E u \in Urls, language \in Languages :
       /\ req_url' = u
       /\ req_language' = language
       /\ IF UrlMatches(u)
            THEN /\ pc' = "download"
                 /\ response' = response
            ELSE /\ pc' = "done"
                 /\ response' = [status |-> 400, filename |-> NoFile, srt |-> <<>>]
  /\ UNCHANGED <<files, audio_path, audio_source, proc, chunks, offset, idx, ci,
                 all_segments, raw_segments, started>>

\* Line 288 and _download_audio: yt-dlp raises, or produces no mp3, or
\* produces the mp3.
DownloadAudio ==
  /\ pc = "download"
  /\ UNCHANGED <<lvars, mvars, xvars>>
  /\ started' = started \cup {"download"}
  /\ \/ \E src \in AudioSources :
            /\ files' = files \cup {AudioFile}
            /\ audio_path' = AudioFile
            /\ audio_source' = src
            /\ pc' = "split"
            /\ response' = response
     \/ /\ Fail500
        /\ UNCHANGED <<files, audio_path, audio_source>>
  /\ UNCHANGED <<req_url, req_language, proc, chunks, offset, idx, ci, all_segments,
                 raw_segments>>

\* The size test of line 171 with the limit itself left out.
FitsGroqStrict(sz) == sz < GROQ_MAX_FILE_SIZE

\* Line 171: st_size <= GROQ_MAX_FILE_SIZE.
FitsGroq(sz) == sz <= GROQ_MAX_FILE_SIZE

\* Lines 171-176: the size test of _split_audio.
SplitAudio ==
  /\ pc = "split"
  /\ UNCHANGED <<lvars, mvars, xvars>>
  /\ IF FitsGroq(audio_source.size)
       THEN /\ chunks' = <<[path |-> audio_path, offset |-> 0]>>
            /\ ci' = 1
            /\ pc' = "transcribe"
       ELSE /\ chunks' = <<>>
            /\ ci' = ci
            /\ pc' = "cut"
  /\ offset' = 0
  /\ idx' = 0
  /\ UNCHANGED <<files, req_url, req_language, audio_path, audio_source, proc,
                 all_segments, raw_segments, started, response>>

\* The offset left where it was.
NextOffsetStuck(o) == o

\* Line 196: offset += CHUNK_DURATION_SEC.
NextOffset(o) == o + CHUNK_DURATION_SEC

\* The chunks returned as they are, with no fallback.
SplitResultNoFallback(cs) == cs

\* Line 199: what _split_audio returns once the loop has ended.
SplitResult(cs) == IF cs = <<>> THEN <<[path |-> audio_path, offset |-> 0]>> ELSE cs

\* The test of line 189 with the return code ignored.
CutFailedIgnoringCode(p) == ~p.exists

\* Line 189: proc.returncode != 0 or not Path(chunk_path).exists().
CutFailed(p) == p.returncode # 0 \/ ~p.exists

\* Line 191: st_size < 1000.
Negligible(p) == p.st_size < MIN_CHUNK_BYTES

\* A cut attempt after which the loop ends (lines 189-194).
CutEndsLoop(p) == CutFailed(p) \/ Negligible(p)

\* What one run of ffmpeg may leave: its return code, whether chunk_path
\* exists afterwards, and the size of the file if it does.
CutOutcomes ==
  {[returncode |-> rc, exists |-> produced, st_size |-> IF produced THEN sz ELSE 0] :
     rc \in {0, 1}, produced \in BOOLEAN, sz \in ChunkSizes}

\* Lines 177-197: one iteration of the cut loop. A cut that starts at or
\* beyond the end of the source yields no usable chunk: it fails, or leaves
\* no file, or leaves a negligible one. subprocess.run may also raise, when
\* ffmpeg cannot be started.
CutAttempt ==
  /\ pc = "cut"
  /\ UNCHANGED <<lvars, mvars, xvars>>
  /\ started' = started \cup {"cut"}
  /\ \/ \E p \in CutOutcomes :
            LET chunk_path == ChunkFile(idx)
                written == IF p.exists THEN files \cup {chunk_path} ELSE files
            IN  /\ offset >= audio_source.duration => CutEndsLoop(p)
                /\ proc' = p
                /\ response' = response
                /\ IF CutFailed(p)
                     THEN /\ files' = written
                          /\ pc' = "split_return"
                          /\ UNCHANGED <<chunks, offset, idx>>
                     ELSE IF Negligible(p)
                       THEN /\ files' = written \ {chunk_path}
                            /\ pc' = "split_return"
                            /\ UNCHANGED <<chunks, offset, idx>>
                       ELSE /\ files' = written
                            /\ chunks' =
                                 Append(chunks, [path |-> chunk_path, offset |-> offset])
                            /\ offset' = NextOffset(offset)
                            /\ idx' = idx + 1
                            /\ pc' = pc
     \/ \* subprocess.run raises: the exception leaves _split_audio and
        \* reaches the except clause of transcribe_youtube.
        /\ Fail500
        /\ UNCHANGED <<files, proc, chunks, offset, idx>>
  /\ UNCHANGED <<req_url, req_language, audio_path, audio_source, ci, all_segments,
                 raw_segments>>

\* Line 199: _split_audio returns; line 289 binds the result to chunks.
SplitReturn ==
  /\ pc = "split_return"
  /\ UNCHANGED <<lvars, mvars, xvars>>
  /\ chunks' = SplitResult(chunks)
  /\ proc' = NoProc
  /\ ci' = 1
  /\ pc' = "transcribe"
  /\ UNCHANGED <<files, req_url, req_language, audio_path, audio_source, offset, idx,
                 all_segments, raw_segments, started, response>>

\* What the provider may return for one chunk: at most n segments of one
\* shape, in any order.
ProviderSegments(shape) ==
  {[shape |-> shape, start |-> span[1], end |-> span[2], text |-> text] :
     span \in SegSpans, text \in SegTexts}

ProviderResponses(n) ==
  UNION {[1..m -> ProviderSegments(shape)] : m \in 0..n, shape \in Shapes}

\* The offset added to the start only, for object-shaped segments.
AddOffsetStartOnly(seg, o) ==
  IF seg.shape = "dict"
    THEN [seg EXCEPT !.start = seg.start + o * TicksPerSec,
                     !.end = seg.end + o * TicksPerSec]
    ELSE [seg EXCEPT !.start = @ + o * TicksPerSec]

\* Lines 307-312: the offset of the chunk, added to start and end.
AddOffset(seg, o) ==
  IF seg.shape = "dict"
    THEN [seg EXCEPT !.start = seg.start + o * TicksPerSec,
                     !.end = seg.end + o * TicksPerSec]
    ELSE [seg EXCEPT !.start = @ + o * TicksPerSec, !.end = @ + o * TicksPerSec]

\* Lines 292-317: one iteration of the for loop over chunks.
TranscribeChunk ==
  /\ pc = "transcribe"
  /\ UNCHANGED <<lvars, mvars, xvars>>
  /\ ci <= Len(chunks)
  /\ started' = started \cup {"provider"}
  /\ LET chunk_path == chunks[ci].path
         o == chunks[ci].offset
     IN  \/ /\ Fail500
            /\ UNCHANGED <<files, ci, all_segments, raw_segments>>
         \/ /\ chunk_path \in files
            /\ \E segs \in ProviderResponses(MaxSegments - Len(all_segments)) :
                 /\ all_segments' =
                      all_segments \o [i \in 1..Len(segs) |-> AddOffset(segs[i], o)]
                 /\ raw_segments' =
                      raw_segments \o [i \in 1..Len(segs) |-> [chunk |-> ci, seg |-> segs[i]]]
            /\ files' = IF chunk_path # audio_path THEN files \ {chunk_path} ELSE files
            /\ ci' = ci + 1
            /\ UNCHANGED <<pc, response>>
  /\ UNCHANGED <<req_url, req_language, audio_path, audio_source, proc, chunks,
                 offset, idx>>

(* ------------------------------ _build_srt ----------------------------- *)

IsSpace(c) == c = " "

\* str.strip(): leading and trailing whitespace removed.
RECURSIVE LStrip(_)
LStrip(t) == IF t # <<>> /\ IsSpace(Head(t)) THEN LStrip(Tail(t)) ELSE t

RECURSIVE RStrip(_)
RStrip(t) ==
  IF t # <<>> /\ IsSpace(t[Len(t)]) THEN RStrip(SubSeq(t, 1, Len(t) - 1)) ELSE t

Strip(t) == RStrip(LStrip(t))

\* _s2t.convert on one character: "s" stands for a character that has a
\* distinct traditional form "T"; every other character is its own form.
S2TChar(c) == IF c = "s" THEN "T" ELSE c

\* Lines 245-249.
ConvertChinese(text, language) ==
  IF language = "yue" THEN [i \in 1..Len(text) |-> S2TChar(text[i])] ELSE text

\* Lines 237-242: int() rounds each field down, the milliseconds too.
FormatTs(t) ==
  [h |-> t \div (3600 * TicksPerSec),
   m |-> (t % (3600 * TicksPerSec)) \div (60 * TicksPerSec),
   s |-> (t % (60 * TicksPerSec)) \div TicksPerSec,
   ms |-> (t % TicksPerSec) \div TicksPerMs]

\* The entries numbered by the position of their segment, skipped ones
\* included.
RECURSIVE BuildSrtFromCounting(_, _, _)
BuildSrtFromCounting(segments, language, index) ==
  IF segments = <<>> THEN <<>>
  ELSE LET seg == Head(segments)
           text == Strip(seg.text)
       IN  IF text = <<>>
             THEN BuildSrtFromCounting(Tail(segments), language, index + 1)
             ELSE << [line |-> "index", index |-> index],
                     [line |-> "time", start |-> FormatTs(seg.start),
                      end |-> FormatTs(seg.end)],
                     [line |-> "text", text |-> ConvertChinese(text, language)],
                     [line |-> "blank"] >>
                  \o BuildSrtFromCounting(Tail(segments), language, index + 1)

\* Lines 257-273: the lines of the SRT text, joined by "\n" in the code.
RECURSIVE BuildSrtFrom(_, _, _)
BuildSrtFrom(segments, language, index) ==
  IF segments = <<>> THEN <<>>
  ELSE LET seg == Head(segments)
           text == Strip(seg.text)
       IN  IF text = <<>>
             THEN BuildSrtFrom(Tail(segments), language, index)
             ELSE << [line |-> "index", index |-> index],
                     [line |-> "time", start |-> FormatTs(seg.start),
                      end |-> FormatTs(seg.end)],
                     [line |-> "text", text |-> ConvertChinese(text, language)],
                     [line |-> "blank"] >>
                  \o BuildSrtFrom(Tail(segments), language, index + 1)

BuildSrt(segments, language) == BuildSrtFrom(segments, language, 1)

\* The statements after the loop running once the first chunk is done.
LoopDoneAfterFirst(i, cs) == i > 1

\* Line 292: the for loop over chunks has run for every chunk.
LoopDone(i, cs) == i > Len(cs)

\* Lines 319-331: the SRT is built and written, the source audio deleted.
\* write_text may raise (the except clause then answers 500).
WriteSrt ==
  /\ pc = "transcribe"
  /\ UNCHANGED <<lvars, mvars, xvars>>
  /\ LoopDone(ci, chunks)
  /\ LET srt_content == BuildSrt(all_segments, req_language)
     IN  \/ /\ files' = (files \cup {SrtFile}) \ {audio_path}
            /\ response' = [status |-> 200, filename |-> SrtFile, srt |-> srt_content]
            /\ pc' = "done"
         \/ /\ Fail500
            /\ files' = files
  /\ UNCHANGED <<req_url, req_language, audio_path, audio_source, proc, chunks,
                 offset, idx, ci, all_segments, raw_segments, started>>

\* _build_srt called on a segment list of its own.
BuildSrtCall ==
  /\ srt_pc = "idle"
  /\ \E segments \in SrtSegmentLists(MaxSrtSegments), language \in Languages :
       /\ srt_segments' = segments
       /\ srt_language' = language
       /\ srt_result' = BuildSrt(segments, language)
  /\ srt_pc' = "done"
  /\ UNCHANGED <<files, pvars, lvars, mvars, kvars, cvars>>

(* -------------------------- backend credentials ------------------------ *)

\* Lines 23, 29 and 34: the module reads the keys when it is imported. The
\* Groq constructor raises GroqError when api_key is None and accepts any
\* string; the two other keys are only stored.
ImportModule ==
  /\ k_pc = "start"
  /\ \E e \in [KeyNames -> KeyValues] :
       /\ env' = e
       /\ IF e["GROQ_API_KEY"] = "unset"
            THEN k_pc' = "import_failed" /\ k_error' = "groq_error"
            ELSE k_pc' = "serving" /\ k_error' = "none"
  /\ UNCHANGED <<k_path, k_http>>
  /\ UNCHANGED <<files, pvars, lvars, mvars, svars, cvars>>

\* What an HTTP request sent with the key may end in: an answer, a status
\* error from the backend, or a transport error. A backend never answers a
\* request that carries an empty key.
HttpOutcomes(key) ==
  IF key = "set" THEN {"none", "status_error", "transport_error"}
  ELSE {"status_error", "transport_error"}

\* A call through groq_client: no test of the key in front of the request.
GroqCall(path) ==
  /\ k_pc = "serving"
  /\ k_path' = path
  /\ k_http' = TRUE
  /\ k_error' \in HttpOutcomes(env["GROQ_API_KEY"])
  /\ UNCHANGED <<env, k_pc>>
  /\ UNCHANGED <<files, pvars, lvars, mvars, svars, cvars>>

\* Lines 407 and 434: "if not KEY" is true of None and of the empty string.
KeyMissing(key) == key \in {"unset", "empty"}

\* A call through httpx behind the test of its key (lines 407-408, 434-435).
HttpxCall(path, name) ==
  /\ k_pc = "serving"
  /\ k_path' = path
  /\ IF KeyMissing(env[name])
       THEN k_http' = FALSE /\ k_error' = "not_configured"
       ELSE k_http' = TRUE /\ k_error' \in HttpOutcomes(env[name])
  /\ UNCHANGED <<env, k_pc>>
  /\ UNCHANGED <<files, pvars, lvars, mvars, svars, cvars>>

\* Lines 293-303: _transcribe of transcribe_youtube.
Transcribe == GroqCall("groq_full")

\* Lines 374-383: _transcribe_chunk of live_stt.
TranscribeChunkLive == GroqCall("groq_live")

\* Lines 432-450.
CallElevenlabsScribe == HttpxCall("elevenlabs", "ELEVENLABS_API_KEY")

\* Lines 405-429.
CallOllama == HttpxCall("ollama", "OLLAMA_API_KEY")

(* ------------------------ concurrent executions ----------------------- *)

\* The value of the next call of uuid4 by execution e: no two calls return
\* the same value, so a value is told by who called and which call it was.
Uuid4(e, k) == <<e, uuids[e] + k>>

\* A file named after the value uuid4 returned and, for a chunk, its idx.
Named(kind, u, i) == [kind |-> kind, uuid |-> u, idx |-> i]

\* The chunk named by its idx alone.
ChunkNameByIdx(u, i) == Named("chunk", <<"none", 0>>, i)

\* Line 178: chunk_{uuid4()}_{idx}.mp3.
ChunkName(u, i) == Named("chunk", u, i)

\* The step of execution e: its new locals, the files left, the number of
\* uuid4 calls made, the paths it created and the paths it used.
RunStep(e, locals, fs, made, created, used) ==
  /\ runs' = [runs EXCEPT ![e] = locals]
  /\ files' = fs
  /\ uuids' = [uuids EXCEPT ![e] = @ + made]
  /\ creator' = {c \in creator : c.file \notin created}
                   \cup {[file |-> f, by |-> e] : f \in created}
  /\ touched' = [by |-> e, paths |-> used]
  /\ UNCHANGED <<pvars, lvars, mvars, svars, kvars>>

IsPipeline(e) == e \in {"transcribe_1", "transcribe_2"}

\* Line 288 and _download_audio (line 143: the stem is a uuid4).
RunDownload(e) ==
  /\ IsPipeline(e)
  /\ runs[e].pc = "idle"
  /\ LET mp3_path == Named("audio", Uuid4(e, 0), 0)
     IN  \/ RunStep(e, [runs[e] EXCEPT !.pc = "split", !.audio_path = mp3_path],
                    files \cup {mp3_path}, 1, {mp3_path}, {mp3_path})
         \/ RunStep(e, [runs[e] EXCEPT !.pc = "done"], files, 1, {}, {})

\* Lines 171-176 of _split_audio.
RunSplit(e) ==
  /\ IsPipeline(e)
  /\ runs[e].pc = "split"
  /\ \/ RunStep(e, [runs[e] EXCEPT !.pc = "transcribe", !.ci = 1,
                                   !.chunks = <<runs[e].audio_path>>],
                 files, 0, {}, {runs[e].audio_path})
     \/ RunStep(e, [runs[e] EXCEPT !.pc = "cut"], files, 0, {}, {runs[e].audio_path})

\* Lines 177-199 of _split_audio: one cut, and the return once the loop ends.
RunCut(e) ==
  /\ IsPipeline(e)
  /\ runs[e].pc = "cut"
  /\ LET chunk_path == ChunkName(Uuid4(e, 0), runs[e].idx)
         used == {runs[e].audio_path, chunk_path}
         returned == [runs[e] EXCEPT
                        !.pc = "transcribe", !.ci = 1,
                        !.chunks = IF @ = <<>> THEN <<runs[e].audio_path>> ELSE @]
     IN  \/ RunStep(e, returned, files, 1, {}, used)
         \/ RunStep(e, returned, files \cup {chunk_path}, 1, {chunk_path}, used)
         \/ RunStep(e, returned, files \ {chunk_path}, 1, {chunk_path}, used)
         \/ /\ runs[e].idx < MaxChunks
            /\ RunStep(e, [runs[e] EXCEPT !.chunks = Append(@, chunk_path),
                                          !.idx = @ + 1],
                        files \cup {chunk_path}, 1, {chunk_path}, used)

\* Lines 292-317: the provider call on one chunk, the append, the unlink.
RunTranscribe(e) ==
  /\ IsPipeline(e)
  /\ runs[e].pc = "transcribe"
  /\ runs[e].ci <= Len(runs[e].chunks)
  /\ LET chunk_path == runs[e].chunks[runs[e].ci]
     IN  \/ RunStep(e, [runs[e] EXCEPT !.pc = "done"], files, 0, {}, {chunk_path})
         \/ /\ chunk_path \in files
            /\ RunStep(e, [runs[e] EXCEPT !.ci = @ + 1,
                                          !.all_segments = Append(@, chunk_path)],
                        IF chunk_path # runs[e].audio_path
                          THEN files \ {chunk_path} ELSE files,
                        0, {}, {chunk_path})

\* Lines 319-325: the SRT file named by a uuid4, the source audio unlinked.
RunWriteSrt(e) ==
  /\ IsPipeline(e)
  /\ runs[e].pc = "transcribe"
  /\ runs[e].ci > Len(runs[e].chunks)
  /\ LET filename == Named("srt", Uuid4(e, 0), 0)
     IN  RunStep(e, [runs[e] EXCEPT !.pc = "done"],
                 (files \cup {filename}) \ {runs[e].audio_path}, 1, {filename},
                 {filename, runs[e].audio_path})

\* Line 374 and _convert_to_wav: two uuid4 names, in_path written and, once
\* ffmpeg has run, unlinked.
SessionConvert(e) ==
  /\ ~IsPipeline(e)
  /\ runs[e].pc \in {"idle", "receive"}
  /\ runs[e].frames < MaxFrames
  /\ LET in_path == Named("live_in", Uuid4(e, 0), 0)
         out_path == Named("live_out", Uuid4(e, 1), 0)
         failed == [runs[e] EXCEPT !.pc = "done", !.frames = @ + 1]
     IN  \/ RunStep(e, failed, files \cup {in_path}, 2, {in_path}, {in_path})
         \/ RunStep(e, failed, files, 2, {in_path}, {in_path, out_path})
         \/ RunStep(e, failed, files \cup {out_path}, 2, {in_path, out_path},
                    {in_path, out_path})
         \/ RunStep(e, [runs[e] EXCEPT !.pc = "transcribe", !.frames = @ + 1,
                                       !.wav_path = out_path],
                    files \cup {out_path}, 2, {in_path, out_path}, {in_path, out_path})

\* Lines 376-387: the provider call on the wav file, then its unlink.
SessionTranscribe(e) ==
  /\ ~IsPipeline(e)
  /\ runs[e].pc = "transcribe"
  /\ \/ RunStep(e, [runs[e] EXCEPT !.pc = "done"], files, 0, {}, {runs[e].wav_path})
     \/ /\ runs[e].wav_path \in files
        /\ RunStep(e, [runs[e] EXCEPT !.pc = "receive"], files \ {runs[e].wav_path},
                    0, {}, {runs[e].wav_path})

(* ------------------------------- live_stt ------------------------------ *)

LiveInFile(n) == [kind |-> "live_in", n |-> n]

LiveOutFile(n) == [kind |-> "live_out", n |-> n]

\* The states of a live session, by the position of its handler.
LiveState ==
  IF lpc = "receive_init" THEN "AwaitingInit"
  ELSE IF lpc = "closed" THEN "Closed"
  ELSE "Streaming"

\* Another default than "yue".
InitLanguageOtherDefault(init) ==
  IF "language" \in DOMAIN init THEN init["language"] ELSE "zh"

\* Line 367: init.get("language", "yue").
InitLanguage(init) ==
  IF "language" \in DOMAIN init THEN init["language"] ELSE "yue"

\* Lines 396-397: WebSocketDisconnect ends the handler silently.
LiveDisconnected ==
  /\ lpc' = "closed"
  /\ outbox' = outbox

\* Lines 398-402: any other exception is sent as an error message, if the
\* socket still takes it, and the handler ends.
LiveFail ==
  /\ lpc' = "closed"
  /\ outbox' = IF client_open
                 THEN Append(outbox, [kind |-> "error", text |-> <<>>])
                 ELSE outbox

\* The last frame of the log, resolved.
Resolved(log, outcome, text, sent) ==
  [log EXCEPT ![Len(log)] = [@ EXCEPT !.outcome = outcome, !.text = text, !.sent = sent]]

\* The client closes the websocket, at any moment of the session.
ClientDisconnect ==
  /\ lpc # "closed"
  /\ client_open
  /\ client_open' = FALSE
  /\ UNCHANGED <<files, pvars, mvars, xvars, lpc, lang, audio_bytes, wav_path, outbox,
                 init_log, frame_log, live_calls>>

\* Lines 366-367: the first message. It is a JSON object, or something
\* receive_json cannot take, or the client has gone.
LiveReceiveInit ==
  /\ lpc = "receive_init"
  /\ \/ /\ ~client_open
        /\ LiveDisconnected
        /\ UNCHANGED <<lang, init_log>>
     \/ /\ \E init \in InitMessages :
             /\ init_log' = Append(init_log, init)
             /\ lang' = InitLanguage(init)
        /\ lpc' = "receive_bytes"
        /\ outbox' = outbox
     \/ /\ LiveFail
        /\ UNCHANGED <<lang, init_log>>
  /\ UNCHANGED <<files, pvars, mvars, xvars, client_open, audio_bytes, wav_path, frame_log,
                 live_calls>>

\* The test with a threshold of 40 bytes.
FrameTooShort40(sz) == sz < 40

\* Line 371: len(audio_bytes) < 100.
FrameTooShort(sz) == sz < MIN_FRAME_BYTES

\* Lines 370-372: the next frame. Frames under the threshold are skipped; a
\* text message makes receive_bytes raise.
LiveReceiveBytes ==
  /\ lpc = "receive_bytes"
  /\ \/ /\ ~client_open
        /\ LiveDisconnected
        /\ UNCHANGED <<audio_bytes, frame_log>>
     \/ /\ Len(frame_log) < MaxFrames
        /\ \E sz \in FrameSizes :
             IF FrameTooShort(sz)
               THEN /\ frame_log' = Append(frame_log,
                         [size |-> sz, outcome |-> "ignored", text |-> <<>>, sent |-> FALSE])
                    /\ UNCHANGED <<lpc, audio_bytes>>
               ELSE /\ frame_log' = Append(frame_log,
                         [size |-> sz, outcome |-> "pending", text |-> <<>>, sent |-> FALSE])
                    /\ audio_bytes' = sz
                    /\ lpc' = "convert"
        /\ outbox' = outbox
     \/ /\ LiveFail
        /\ UNCHANGED <<audio_bytes, frame_log>>
  /\ UNCHANGED <<files, pvars, mvars, xvars, client_open, lang, wav_path, init_log, live_calls>>

\* _convert_to_wav, lines 204-214: the files left once in_path is written
\* and subprocess.run has either raised (ffmpeg could not be started: the
\* exception leaves the function at line 207) or returned, ffmpeg leaving
\* out_path or not, after which in_path is unlinked.
ConvertToWavFiles(fs, n, spawned, produced) ==
  IF ~spawned
    THEN fs \cup {LiveInFile(n)}
    ELSE ((fs \cup {LiveInFile(n)}) \cup (IF produced THEN {LiveOutFile(n)} ELSE {}))
           \ {LiveInFile(n)}

\* What subprocess.run may do: raise OSError without a run of ffmpeg, or
\* return the exit code of ffmpeg, which left its output file or not.
RunOutcomes ==
  {[spawned |-> FALSE, rc |-> 1, produced |-> FALSE]}
    \cup {[spawned |-> TRUE, rc |-> rc, produced |-> produced] :
            rc \in {0, 1}, produced \in BOOLEAN}

\* Line 374 and _convert_to_wav: ffmpeg exits with rc, leaving out_path or not.
LiveConvert ==
  /\ lpc = "convert"
  /\ live_calls' = Append(live_calls, [call |-> "ffmpeg", language |-> "none"])
  /\ \E run \in RunOutcomes :
       /\ files' = ConvertToWavFiles(files, Len(frame_log), run.spawned, run.produced)
       /\ IF ~run.spawned \/ run.rc # 0 \/ ~run.produced
            THEN /\ LiveFail
                 /\ frame_log' = Resolved(frame_log, "convert_failed", <<>>, FALSE)
                 /\ wav_path' = wav_path
            ELSE /\ wav_path' = LiveOutFile(Len(frame_log))
                 /\ lpc' = "transcribe"
                 /\ UNCHANGED <<outbox, frame_log>>
  /\ UNCHANGED <<pvars, mvars, xvars, client_open, lang, audio_bytes, init_log>>

\* Lines 389-392: the text of the result message.
LiveText(raw_text, language) ==
  LET text == Strip(raw_text)
  IN  IF text # <<>> THEN ConvertChinese(text, language) ELSE text

\* No message for an empty text.
ResultMessagesNonEmpty(text) ==
  IF text = <<>> THEN <<>> ELSE <<[kind |-> "text", text |-> text]>>

\* Line 394: the messages sent for a transcribed frame.
ResultMessages(text) == <<[kind |-> "text", text |-> text]>>

\* Lines 376-394: the provider call on the wav file, then the unlink and
\* the result message. send_json raises WebSocketDisconnect when the client
\* has gone.
LiveTranscribe ==
  /\ lpc = "transcribe"
  /\ live_calls' = Append(live_calls, [call |-> "groq", language |-> lang])
  /\ \/ /\ LiveFail
        /\ frame_log' = Resolved(frame_log, "provider_failed", <<>>, FALSE)
        /\ files' = files
     \/ /\ wav_path \in files
        /\ \E raw_text \in LiveTexts :
             LET text == LiveText(raw_text, lang)
             IN  /\ frame_log' = Resolved(frame_log, "transcribed", text, client_open)
                 /\ IF client_open
                      THEN /\ outbox' = outbox \o ResultMessages(text)
                           /\ lpc' = "receive_bytes"
                      ELSE LiveDisconnected
        /\ files' = files \ {wav_path}
  /\ UNCHANGED <<pvars, mvars, xvars, client_open, lang, audio_bytes, wav_path, init_log>>

(* -------------------------- transcribe_minutes ------------------------- *)

UploadFile == [kind |-> "upload", n |-> 0]

NormFile == [kind |-> "norm", n |-> 0]

TxtFile == [kind |-> "txt", n |-> 0]

\* Line 540: Path(file.filename).suffix.lower().
Suffix(filename) ==
  LET suffix == IF Len(filename) >= 2 THEN filename[Len(filename)] ELSE ""
  IN  IF suffix = ".WAV" THEN ".wav" ELSE suffix

\* Line 541.
AllowedExtensions == {".mp3", ".wav", ".m4a", ".ogg", ".flac", ".webm", ".mp4", ".mov"}

\* Line 481: the word ends a sentence ("." stands for each of the six marks).
EndsSentence(word_text) ==
  LET t == RStrip(word_text) IN t # <<>> /\ t[Len(t)] = "."

\* Lines 482 and 491: [MM:SS] of a time in whole milliseconds.
MinuteStamp(t) == [mm |-> t \div 60000, ss |-> (t % 60000) \div 1000]

\* Lines 471-494: the words grouped into lines, a line ending with each
\* sentence-ending word; cur is current_line_words joined, cur_start is
\* current_start (-1 for None).
RECURSIVE MinutesLines(_, _, _, _)
MinutesLines(words, cur, cur_start, language) ==
  IF words = <<>>
    THEN IF cur = <<>> THEN <<>>
         ELSE << [ts |-> MinuteStamp(IF cur_start < 0 THEN 0 ELSE cur_start),
                  text |-> ConvertChinese(cur, language)] >>
    ELSE LET word == Head(words)
             start == IF cur_start < 0 THEN word.start ELSE cur_start
             line == cur \o word.text
         IN  IF EndsSentence(word.text)
               THEN << [ts |-> MinuteStamp(start),
                        text |-> ConvertChinese(line, language)] >>
                    \o MinutesLines(Tail(words), <<>>, -1, language)
               ELSE MinutesLines(Tail(words), line, start, language)

\* _format_minutes_text, lines 453-496: the plain text, or the stamped lines.
FormatMinutesText(result, language, include_timestamps) ==
  IF ~include_timestamps \/ result.words = <<>>
    THEN << [ts |-> MinuteStamp(0), text |-> ConvertChinese(result.text, language)] >>
    ELSE MinutesLines(result.words, <<>>, -1, language)

\* Lines 586-589: the finally clause.
MinutesFinally(fs, norm) ==
  (fs \ {input_path}) \ (IF norm # NoFile THEN {norm} ELSE {})

MinutesAnswer(status, filename, text) ==
  /\ m_response' = [status |-> status, filename |-> filename, srt |-> text]
  /\ mpc' = "done"

\* Lines 536-557: the checks of the upload, then the upload written to disk.
MinutesReceive ==
  /\ mpc = "idle"
  /\ \E filename \in UploadNames, size \in UploadSizes, language \in Languages,
        include_timestamps \in BOOLEAN :
       /\ upload' = [filename |-> filename, size |-> size, language |-> language,
                     include_timestamps |-> include_timestamps]
       /\ IF \/ filename = <<>>
             \/ Suffix(filename) \notin AllowedExtensions
             \/ size > ELEVENLABS_MAX_FILE_SIZE
            THEN /\ MinutesAnswer(400, NoFile, <<>>)
                 /\ UNCHANGED <<files, input_path>>
            ELSE /\ files' = files \cup {UploadFile}
                 /\ input_path' = UploadFile
                 /\ mpc' = "normalize"
                 /\ m_response' = m_response
  /\ norm_path' = NoFile
  /\ UNCHANGED <<pvars, lvars, xvars, xvars>>

\* Line 561 and _normalize_audio: ffmpeg exits with rc, leaving out_path or
\* not; on failure the except and finally clauses run with norm_path None.
MinutesNormalize ==
  /\ mpc = "normalize"
  /\ \E rc \in {0, 1}, produced \in BOOLEAN :
       LET written == IF produced THEN files \cup {NormFile} ELSE files
       IN  IF rc # 0 \/ ~produced
             THEN /\ MinutesAnswer(500, NoFile, <<>>)
                  /\ files' = MinutesFinally(written, norm_path)
                  /\ norm_path' = norm_path
             ELSE /\ norm_path' = NormFile
                  /\ files' = written
                  /\ mpc' = "scribe"
                  /\ m_response' = m_response
  /\ UNCHANGED <<pvars, lvars, xvars, upload, input_path>>

\* Lines 564-589: the ElevenLabs call (no key, an HTTP error status or
\* another exception answer 500), the text formatted and saved, and the
\* finally clause.
MinutesScribe ==
  /\ mpc = "scribe"
  /\ \/ /\ MinutesAnswer(500, NoFile, <<>>)
        /\ files' = MinutesFinally(files, norm_path)
     \/ \E result \in ScribeResults :
          LET text == FormatMinutesText(result, upload.language, upload.include_timestamps)
          IN  /\ MinutesAnswer(200, TxtFile, text)
              /\ files' = MinutesFinally(files \cup {TxtFile}, norm_path)
  /\ UNCHANGED <<pvars, lvars, xvars, upload, input_path, norm_path>>

Next ==
  \/ ReceiveRequest
  \/ DownloadAudio
  \/ SplitAudio
  \/ CutAttempt
  \/ SplitReturn
  \/ TranscribeChunk
  \/ WriteSrt

Spec == Init /\ [][Next]_vars

\* _split_audio as transcribe_youtube reaches it, up to its return. The
\* handler is one coroutine: once the loop is entered its next iteration is
\* taken, and once the loop has ended the function returns.
NextSplit ==
  \/ ReceiveRequest
  \/ DownloadAudio
  \/ SplitAudio
  \/ CutAttempt
  \/ SplitReturn

SpecSplit ==
  Init /\ [][NextSplit]_vars /\ WF_vars(CutAttempt) /\ WF_vars(SplitReturn)

NextSrt == BuildSrtCall

SpecSrt == Init /\ [][NextSrt]_vars

NextKeys ==
  \/ ImportModule
  \/ Transcribe
  \/ TranscribeChunkLive
  \/ CallElevenlabsScribe
  \/ CallOllama

SpecKeys == Init /\ [][NextKeys]_vars

\* The executions interleave step by step.
NextConcurrent ==
  \E e \in Executions :
    \/ RunDownload(e)
    \/ RunSplit(e)
    \/ RunCut(e)
    \/ RunTranscribe(e)
    \/ RunWriteSrt(e)
    \/ SessionConvert(e)
    \/ SessionTranscribe(e)

SpecConcurrent == Init /\ [][NextConcurrent]_vars

NextLive ==
  \/ ClientDisconnect
  \/ LiveReceiveInit
  \/ LiveReceiveBytes
  \/ LiveConvert
  \/ LiveTranscribe

SpecLive == Init /\ [][NextLive]_vars

NextMinutes ==
  \/ MinutesReceive
  \/ MinutesNormalize
  \/ MinutesScribe

SpecMinutes == Init /\ [][NextMinutes]_vars

(* ------------------------------ properties ----------------------------- *)

KindsIn(fs) == {f.kind : f \in fs}

\* C1: when transcribe_youtube has answered, on any exit path, neither the
\* downloaded source audio nor any chunk file of _split_audio exists.
C1_PipelineScratchDeleted ==
  pc = "done" => KindsIn(files) \cap {"audio", "chunk"} = {}

\* The last frame of the log was pending and this step resolved it as a
\* failure of the conversion or of the provider call.
FrameFailsInStep ==
  /\ frame_log # <<>>
  /\ Len(frame_log') = Len(frame_log)
  /\ frame_log[Len(frame_log)].outcome = "pending"
  /\ frame_log'[Len(frame_log)].outcome \in {"convert_failed", "provider_failed"}

\* C2: a frame whose conversion or provider call fails is reported by an
\* error message and leaves the session in Streaming.
C2_FrameFailureKeepsStreaming ==
  [][FrameFailsInStep =>
       /\ LiveState' = "Streaming"
       /\ client_open =>
            outbox' = Append(outbox, [kind |-> "error", text |-> <<>>])]_vars

\* C3: the wav file _convert_to_wav returned for a frame does not outlive
\* the frame's provider call: none exists while the session waits for the
\* next frame nor once it is Closed.
C3_NoWavLeftBehind ==
  lpc \in {"receive_bytes", "closed"} =>
    \A n \in 1..Len(frame_log) :
      frame_log[n].outcome # "convert_failed" => LiveOutFile(n) \notin files

\* C4: when transcribe_minutes has answered after writing the upload,
\* neither the upload scratch file nor a normalized audio file exists.
C4_MinutesScratchDeleted ==
  mpc = "done" => KindsIn(files) \cap {"upload", "norm"} = {}

\* The allow-listed forms, written out: scheme, optional www., and one of
\* the watch, shortlink and shorts prefixes.
AllowListedPrefixes ==
  {<<scheme, "://">> \o www \o <<site>> :
     scheme \in {"http", "https"},
     www \in {<<>>, <<"www.">>},
     site \in {"youtube.com/watch?", "youtu.be/", "youtube.com/shorts/"}}

AllowListed(u) ==
  \E p \in AllowListedPrefixes : Len(u) >= Len(p) /\ SubSeq(u, 1, Len(p)) = p

\* C5: a request whose URL is not of an allow-listed form is answered 400
\* with no download, cut or provider call started and no file created; a
\* download is started only for an allow-listed URL.
C5_InvalidUrlNeverDownloads ==
  /\ (pc # "idle" /\ ~AllowListed(req_url)) =>
       /\ pc = "done"
       /\ response.status = 400
       /\ started = {}
       /\ files = {}
  /\ started # {} => AllowListed(req_url)

C5_Witness ==
  /\ pc = "done"
  /\ req_url = <<"https", "://", "example.com/", "video">>
  /\ response.status = 400

\* This step receives a frame of fewer than 100 bytes.
ShortFrameInStep ==
  /\ Len(frame_log') = Len(frame_log) + 1
  /\ frame_log'[Len(frame_log')].size < 100

\* C6: receiving a frame under 100 bytes in Streaming creates no file,
\* starts no transcoder or provider call, sends no message and leaves the
\* session in Streaming with its language unchanged.
C6_ShortFrameIgnored ==
  [][ShortFrameInStep =>
       /\ LiveState = "Streaming"
       /\ lpc' = "receive_bytes"
       /\ UNCHANGED <<files, live_calls, outbox, lang, wav_path>>]_vars

C6_Witness ==
  /\ lpc = "receive_bytes"
  /\ Len(frame_log) = 2
  /\ frame_log[1].outcome = "transcribed"
  /\ frame_log[2].size = 40
  /\ frame_log[2].outcome = "ignored"

\* The language an initialization message fixes.
LanguageOfInit(init) ==
  IF init \in {[language |-> l] : l \in Languages} THEN init.language ELSE "yue"

C7_Order ==
  /\ Len(init_log) <= 1
  /\ LiveState = "AwaitingInit" =>
       init_log = <<>> /\ frame_log = <<>> /\ live_calls = <<>>
  /\ LiveState = "Streaming" => Len(init_log) = 1
  /\ (frame_log # <<>> \/ live_calls # <<>>) => Len(init_log) = 1
  /\ Len(init_log) = 1 => lang = LanguageOfInit(init_log[1])
  /\ \A i \in 1..Len(live_calls) :
       live_calls[i].call = "groq" => live_calls[i].language = LanguageOfInit(init_log[1])

C7_Step ==
  /\ LiveState' # LiveState =>
       <<LiveState, LiveState'>> \in {<<"AwaitingInit", "Streaming">>,
                                      <<"Streaming", "Closed">>,
                                      <<"AwaitingInit", "Closed">>}
  /\ (LiveState = "AwaitingInit" /\ LiveState' = "Streaming") =>
       Len(init_log') = Len(init_log) + 1
  /\ LiveState = "Streaming" => UNCHANGED <<lang, init_log>>
  /\ LiveState = "Closed" =>
       UNCHANGED <<lpc, lang, init_log, frame_log, live_calls, outbox, files>>

\* C7: a live session goes from Awaiting-Init to Streaming to Closed and
\* never back (it may close before it was initialized); no frame is received,
\* converted or sent to the provider before exactly one initialization
\* message was received; the language of that message ("yue" when it names
\* none) is the one of every provider call; once Closed nothing more is
\* received, called, sent or written.
C7_SessionLifecycle == []C7_Order /\ [][C7_Step]_vars

C7_Witness ==
  /\ lpc = "closed"
  /\ init_log = <<[rate |-> "16000"]>>
  /\ Len(frame_log) = 2
  /\ \E i \in 1..Len(live_calls) :
       live_calls[i].call = "groq" /\ live_calls[i].language = "yue"

\* The texts of the result messages sent, in order.
ResultTexts ==
  LET results == SelectSeq(outbox, LAMBDA msg : msg.kind = "text")
  IN  [i \in 1..Len(results) |-> results[i].text]

IsTranscribed(frame) == frame.outcome = "transcribed"

IsDelivered(frame) == frame.outcome = "transcribed" /\ frame.sent

\* The texts of the frames of the log that satisfy Test, in arrival order.
FrameTexts(Test(_)) ==
  LET chosen == SelectSeq(frame_log, Test)
  IN  [i \in 1..Len(chosen) |-> chosen[i].text]

\* C8 as stated: the result messages are, in order, one per frame whose
\* conversion and provider call succeeded.
C8_OneResultPerFrame == ResultTexts = FrameTexts(IsTranscribed)

\* C8 amended: the result messages are, in order, one per frame whose
\* conversion and provider call succeeded while the client was still
\* connected when the result was sent, also when the text is empty; the
\* only frame that can lack its message is the last one of a session the
\* client has left, and the session is then Closed.
C8_OneResultPerFrameWhileConnected ==
  /\ ResultTexts = FrameTexts(IsDelivered)
  /\ \A i \in 1..Len(frame_log) :
       (IsTranscribed(frame_log[i]) /\ ~frame_log[i].sent) =>
         i = Len(frame_log) /\ lpc = "closed" /\ ~client_open

C8_Witness ==
  /\ lpc = "receive_bytes"
  /\ Len(frame_log) = 3
  /\ frame_log[1].outcome = "transcribed" /\ frame_log[1].text = <<"T">>
  /\ frame_log[2].outcome = "ignored"
  /\ frame_log[3].outcome = "transcribed" /\ frame_log[3].text = <<>>
  /\ Len(outbox) = 2

\* The pipeline has answered with a transcript.
Assembled == pc = "done" /\ response.status = 200

\* The provider returned every chunk's segments in time order with
\* 0 <= start <= end.
ProviderInTimeOrder ==
  /\ \A i \in 1..Len(raw_segments) :
       0 <= raw_segments[i].seg.start /\ raw_segments[i].seg.start <= raw_segments[i].seg.end
  /\ \A i, j \in 1..Len(raw_segments) :
       (i < j /\ raw_segments[i].chunk = raw_segments[j].chunk) =>
         raw_segments[i].seg.start <= raw_segments[j].seg.start

\* No segment starts after the 600 s window of its chunk.
ProviderWithinWindow ==
  \A i \in 1..Len(raw_segments) : raw_segments[i].seg.start <= CHUNK_DURATION_SEC * TicksPerSec

StartsNonDecreasing ==
  /\ \A i, j \in 1..Len(all_segments) :
       i < j => all_segments[i].start <= all_segments[j].start
  /\ \A i \in 1..Len(all_segments) : all_segments[i].end >= all_segments[i].start

\* C9 as stated: with a provider that returns each chunk's segments in time
\* order with 0 <= start <= end, the transcript has non-decreasing starts
\* over the whole sequence and end >= start in every segment.
C9_StartsNonDecreasing ==
  (Assembled /\ ProviderInTimeOrder) => StartsNonDecreasing

\* C9 amended: the same, for a provider that moreover reports no segment
\* start beyond the 600 s window of the chunk.
C9_StartsNonDecreasingWithinWindow ==
  (Assembled /\ ProviderInTimeOrder /\ ProviderWithinWindow) => StartsNonDecreasing

C9_Witness ==
  /\ Assembled
  /\ ProviderInTimeOrder
  /\ ProviderWithinWindow
  /\ Len(chunks) = 2
  /\ Len(raw_segments) = 2
  /\ raw_segments[1].chunk = 1 /\ raw_segments[1].seg.start = 400 * TicksPerSec
  /\ raw_segments[2].chunk = 2 /\ raw_segments[2].seg.start = 0

\* C10: every assembled segment is the raw segment the provider returned
\* with the offset of its own chunk added once to start and to end, the
\* text and the shape unchanged.
C10_OffsetAddedOnce ==
  /\ Len(all_segments) = Len(raw_segments)
  /\ \A i \in 1..Len(all_segments) :
       LET raw == raw_segments[i].seg
           o == chunks[raw_segments[i].chunk].offset
       IN  all_segments[i] = [shape |-> raw.shape,
                              start |-> raw.start + o * TicksPerSec,
                              end |-> raw.end + o * TicksPerSec,
                              text |-> raw.text]

C10_Witness ==
  /\ Len(all_segments) = 2
  /\ raw_segments[1].chunk = 2 /\ raw_segments[2].chunk = 2
  /\ chunks[2].offset = 600
  /\ raw_segments[1].seg.shape = "dict"
  /\ all_segments[1].start = 1000 * TicksPerSec /\ all_segments[2].end = 1250 * TicksPerSec

(* ----------------------------- _split_audio ---------------------------- *)

\* _split_audio has returned its list to transcribe_youtube.
SplitReturned == pc \in {"transcribe", "done"} /\ chunks # <<>>

\* The source was over the size limit and went through the cut loop.
WasCut == "cut" \in started

\* The stretch of the source a chunk holds, in seconds: the whole source for
\* the original file, else the -ss/-t window cut off at the end of the source.
Window(c) ==
  IF c.path = audio_path
    THEN [lo |-> 0, hi |-> audio_source.duration]
    ELSE [lo |-> c.offset,
          hi |-> IF c.offset + CHUNK_DURATION_SEC < audio_source.duration
                   THEN c.offset + CHUNK_DURATION_SEC
                   ELSE audio_source.duration]

\* Instants of the source, one every half window.
Instants ==
  {(CHUNK_DURATION_SEC \div 2) * k :
     k \in 0..((audio_source.duration - 1) \div (CHUNK_DURATION_SEC \div 2))}

\* The chunks that hold the instant t.
Holding(t) ==
  {i \in 1..Len(chunks) : Window(chunks[i]).lo <= t /\ t < Window(chunks[i]).hi}

\* C11: once _split_audio has returned for a source of duration D, the
\* windows of its chunks cover [0, D) with no overlap and no gap, and only
\* the final chunk is shorter than 600 s, whatever the cut attempts did.
C11_WindowsCoverSource ==
  SplitReturned =>
    /\ \A t \in Instants : Cardinality(Holding(t)) = 1
    /\ \A i \in 1..(Len(chunks) - 1) :
         Window(chunks[i]).hi - Window(chunks[i]).lo = CHUNK_DURATION_SEC

\* C17: the list _split_audio returns is never empty, its i-th chunk (from
\* zero) has offset i * 600, so the offsets strictly increase, and a source
\* at or under the size limit yields the original path at offset 0 alone,
\* with no run of the transcoder.
C17_ChunkOffsets ==
  pc = "transcribe" =>
    /\ Len(chunks) >= 1
    /\ \A i \in 1..Len(chunks) : chunks[i].offset = (i - 1) * 600
    /\ \A i \in 1..(Len(chunks) - 1) : chunks[i].offset < chunks[i + 1].offset
    /\ audio_source.size <= 24 * 1024 * 1024 =>
         /\ chunks = <<[path |-> audio_path, offset |-> 0]>>
         /\ ~WasCut

C17_Witness ==
  /\ pc = "transcribe"
  /\ WasCut
  /\ Len(chunks) = MaxChunks
  /\ chunks[MaxChunks].offset = (MaxChunks - 1) * 600

\* The entries of a chunk list that the cut loop appended.
CutChunks(cs) == SelectSeq(cs, LAMBDA c : c.path.kind = "chunk")

\* One step of _split_audio seen from outside: the attempt just made ends
\* the loop exactly when it failed (ffmpeg did not start, or exited
\* non-zero), left no file or left a file under 1000 bytes, and then
\* appends nothing; any other attempt appends its chunk and
\* the loop goes on. Outside the loop no cut chunk is appended.
C18_Step ==
  /\ pc = "cut" =>
       LET raised == pc' = "done"
           unusable == \/ raised
                       \/ proc'.returncode # 0
                       \/ ~proc'.exists
                       \/ proc'.st_size < 1000
       IN  /\ (pc' # "cut") <=> unusable
           /\ unusable => chunks' = chunks
           /\ (unusable /\ ~raised) => pc' = "split_return"
           /\ ~unusable =>
                chunks' = Append(chunks, [path |-> ChunkFile(idx), offset |-> offset])
  /\ pc # "cut" => CutChunks(chunks') = CutChunks(chunks)

\* C18: the cut loop stops at, and only at, the first attempt that fails,
\* produces no file, or produces a file under 1000 bytes, and appends no
\* chunk from that attempt or after it; every cut at or beyond the end of
\* the source being such an attempt, _split_audio eventually leaves the loop.
C18_LoopStopsAtFirstUnusableCut ==
  /\ [][C18_Step]_vars
  /\ (pc = "cut") ~> (pc \in {"split_return", "done"})

C18_Witness ==
  /\ pc = "split_return"
  /\ Len(chunks) = 1
  /\ proc.returncode = 0 /\ proc.exists /\ proc.st_size = 999
  /\ ChunkFile(1) \notin files

\* The cut loop ran and left no usable chunk: the list is the fallback.
ZeroUsable == WasCut /\ chunks = <<[path |-> audio_path, offset |-> 0]>>

C19_Step ==
  /\ (pc = "split_return" /\ chunks = <<>>) =>
       /\ chunks' = <<[path |-> audio_path, offset |-> 0]>>
       /\ pc' = "transcribe"
       /\ response' = response
  /\ (ZeroUsable /\ audio_path \in files /\ audio_path \notin files') =>
       /\ pc = "transcribe" /\ ci = 2
       /\ pc' = "done" /\ response'.status = 200
  /\ ZeroUsable => ci' <= 2

\* C19: for a source over the limit whose cut loop leaves zero usable
\* chunks, _split_audio returns the original file at offset 0 alone and
\* raises nothing; the pipeline transcribes that file once and deletes it
\* only as the source audio, after the transcript is written.
C19_FallbackToOriginal == [][C19_Step]_vars

C19_Witness ==
  /\ ZeroUsable
  /\ pc = "done"
  /\ response.status = 200
  /\ audio_path \notin files
  /\ Len(all_segments) = 1

(* ------------------------------ _build_srt ----------------------------- *)

\* The segments whose text has a character that is not white space.
NonBlank(segments) ==
  SelectSeq(segments, LAMBDA seg : \E i \in 1..Len(seg.text) : seg.text[i] # " ")

\* C12: _build_srt emits one entry per segment whose trimmed text is not
\* empty, in the order of the segments, numbered 1, 2, ... without gaps
\* whatever was skipped; with no such segment it returns the empty string.
C12_EntriesNumbered ==
  srt_pc = "done" =>
    LET kept == NonBlank(srt_segments)
    IN  /\ Len(srt_result) = 4 * Len(kept)
        /\ \A k \in 1..Len(kept) :
             /\ srt_result[4 * k - 3] = [line |-> "index", index |-> k]
             /\ srt_result[4 * k - 2] =
                  [line |-> "time", start |-> FormatTs(kept[k].start),
                   end |-> FormatTs(kept[k].end)]
             /\ srt_result[4 * k - 1].line = "text"
             /\ srt_result[4 * k] = [line |-> "blank"]

C12_Witness ==
  /\ srt_pc = "done"
  /\ Len(srt_segments) = 3
  /\ srt_segments[2].text = <<" ">>
  /\ srt_segments[1].text = <<" ", "a", " ">>
  /\ Len(srt_result) = 8
  /\ srt_result[5] = [line |-> "index", index |-> 2]

\* The time a stamp reads as, in ticks.
StampTicks(ts) ==
  ((ts.h * 3600 + ts.m * 60 + ts.s) * MsPerSec + ts.ms) * TicksPerMs

\* An SRT text read back: the <<start, end, text>> of its entries.
ParseSrt(content) ==
  [k \in 1..(Len(content) \div 4) |->
     << StampTicks(content[4 * k - 2].start),
        StampTicks(content[4 * k - 2].end),
        content[4 * k - 1].text >>]

\* A well-formed segment list: 0 <= start <= end, and a text that is not
\* empty, is trimmed and is already in the script of the language.
WellFormed(segments, language) ==
  \A i \in 1..Len(segments) :
    LET seg == segments[i]
    IN  /\ 0 <= seg.start /\ seg.start <= seg.end
        /\ seg.text # <<>>
        /\ seg.text[1] # " " /\ seg.text[Len(seg.text)] # " "
        /\ \A j \in 1..Len(seg.text) : language = "yue" => seg.text[j] # "s"

\* C13: for a well-formed segment list and any language, the text that
\* _build_srt returns reads back as the same <<start, end, text>> triples
\* in the same order.
C13_RoundTrip ==
  (srt_pc = "done" /\ WellFormed(srt_segments, srt_language)) =>
    ParseSrt(srt_result) =
      [i \in 1..Len(srt_segments) |->
         <<srt_segments[i].start, srt_segments[i].end, srt_segments[i].text>>]

\* A time in whole milliseconds: the millisecond nearest to it.
WholeMs(t) == (2 * t + TicksPerMs) \div (2 * TicksPerMs)

\* The stamp has two-digit hours, minutes and seconds and three-digit
\* milliseconds, in range, and reads as the time t in whole milliseconds.
StampOf(ts, t) ==
  /\ ts.h \in 0..99 /\ ts.m \in 0..59 /\ ts.s \in 0..59 /\ ts.ms \in 0..999
  /\ ts.h * 3600000 + ts.m * 60000 + ts.s * 1000 + ts.ms = WholeMs(t)

\* C14: every stamp _format_ts renders has two-digit hours, minutes and
\* seconds and three-digit milliseconds, minutes and seconds in 0..59,
\* milliseconds in 0..999, and h*3600000 + m*60000 + s*1000 + ms equal to
\* the time in whole milliseconds.
C14_StampIsTheTime ==
  srt_pc = "done" =>
    LET kept == NonBlank(srt_segments)
    IN  \A k \in 1..Len(kept) :
          /\ 4 * k - 2 <= Len(srt_result)
          /\ StampOf(srt_result[4 * k - 2].start, kept[k].start)
          /\ StampOf(srt_result[4 * k - 2].end, kept[k].end)

(* -------------------------- backend credentials ------------------------ *)

\* The key a backend call path requires.
RequiredKey(path) ==
  CASE path = "groq_full" -> "GROQ_API_KEY"
    [] path = "groq_live" -> "GROQ_API_KEY"
    [] path = "elevenlabs" -> "ELEVENLABS_API_KEY"
    [] path = "ollama" -> "OLLAMA_API_KEY"

\* C15: on each of the four backend call paths, a call made while the
\* required credential is absent (not set, or set to nothing) raises a
\* missing-credentials error before any outbound HTTP request is
\* attempted, and that error is not the one a rejected request raises.
C15_MissingKeyBeforeHttp ==
  (k_path # "none" /\ env[RequiredKey(k_path)] # "set") =>
    /\ ~k_http
    /\ k_error = "not_configured"

(* ---------------------------- _convert_to_wav -------------------------- *)

\* _convert_to_wav has been called and has returned or raised.
ConvertCalled ==
  \E i \in 1..Len(live_calls) : live_calls[i].call = "ffmpeg"

\* C20: after any call of _convert_to_wav, whether it returned a path or
\* raised, the scratch input file it wrote no longer exists, whatever the
\* transcoder did.
C20_InputDeleted ==
  ConvertCalled => \A n \in 1..Len(frame_log) : LiveInFile(n) \notin files

(* ------------------------ concurrent executions ----------------------- *)

\* The step just taken used only paths that did not exist or that the
\* execution taking it had created, and changed no other execution's locals.
C16_Step ==
  /\ \A f \in touched'.paths :
       f \in files => [file |-> f, by |-> touched'.by] \in creator
  /\ \A e \in Executions : runs'[e] # runs[e] => e = touched'.by

\* C16: under any interleaving of pipeline executions and live sessions,
\* each execution reads, writes and deletes only scratch files it created
\* itself and appends only to its own segment list.
C16_ExecutionsIsolated == [][C16_Step]_vars

C16_Witness ==
  /\ runs["transcribe_1"].pc = "transcribe" /\ Len(runs["transcribe_1"].chunks) = 2
  /\ runs["transcribe_2"].pc = "transcribe" /\ Len(runs["transcribe_2"].chunks) = 2
  /\ Len(runs["transcribe_1"].all_segments) = 1
  /\ Len(runs["transcribe_2"].all_segments) = 1
  /\ runs["live_1"].pc = "transcribe" /\ runs["live_1"].wav_path \in files
  /\ touched.by = "transcribe_1"

(* -------------------------- publishing the SRT ------------------------- *)

\* The handler has answered with an error result.
AnsweredError == pc = "done" /\ response.status # 200

\* The step that creates the .srt file comes after the download, the split
\* and a provider call that returned for every chunk of the list, and
\* answers 200 with the name of the file.
C21_Step ==
  (SrtFile \notin files /\ SrtFile \in files') =>
    /\ {"download", "provider"} \subseteq started
    /\ audio_path \in files
    /\ Len(chunks) >= 1
    /\ ci = Len(chunks) + 1
    /\ \A i \in 1..Len(raw_segments) : raw_segments[i].chunk \in 1..Len(chunks)
    /\ response'.status = 200 /\ response'.filename = SrtFile

\* C21: an .srt file is published only after the download, the split and
\* the transcription of every chunk have succeeded; after a failure before
\* that no .srt file exists and the answer is an error with no file name,
\* so no transcript of a prefix of the chunks is published.
C21_SrtOnlyAfterAllChunks ==
  /\ [](AnsweredError => (SrtFile \notin files /\ response.filename = NoFile))
  /\ [](SrtFile \in files => (response.status = 200 /\ ci = Len(chunks) + 1))
  /\ [][C21_Step]_vars

C21_Witness ==
  /\ pc = "done"
  /\ response.status = 200 /\ response.filename = SrtFile
  /\ SrtFile \in files
  /\ WasCut /\ Len(chunks) = 2
  /\ Len(all_segments) = 2


====
